---- MODULE Spec2Model ----
(***************************************************************************)
(* The network built by htbab_tutorials/ch6-learn.ipynb ("Learning a       *)
(* communication channel") and the simulator's time-step loop over it.     *)
(*                                                                         *)
(* Values are fixed point: Radius is the integer that stands for 1.0.      *)
(* One step of the simulator advances t by DT seconds.  Every synapse of   *)
(* the notebook (0.005 s to 0.02 s) settles within such a step, so a       *)
(* filtered connection is the one-step delay every filtered connection     *)
(* of the simulator has.  An ensemble is a pair of neurons, one per        *)
(* encoder (+1 "on", -1 "off"), with unit gain and intercept -1: the       *)
(* smallest population that represents the interval [-1, 1] exactly.       *)
(*                                                                         *)
(* The model runs the network twice, side by side: the second run          *)
(* ("shadow") is a second build of the same notebook, with the same        *)
(* network seed, whose global numpy generator and whose actual_error       *)
(* state may differ from the first's.  at_onset records the actual error   *)
(* shown at the first step after the inhibition threshold.                 *)
(***************************************************************************)
EXTENDS Integers, FiniteSets

VARIABLES t, np_random, input, inhibit, pre, post, error, inhib_in,
          pes_error, actual_error, weights, theta, transform, shadow,
          at_onset

vars == <<t, np_random, input, inhibit, pre, post, error, inhib_in,
          pes_error, actual_error, weights, theta, transform, shadow,
          at_onset>>

\* ------------------------------------------------------------------ bounds

\* The simulation is run for MaxT seconds, in steps of DT seconds.
MaxT == 27

DT == 3

\* The number of states the global numpy generator may be in at build time.
NpStates == 2

\* ------------------------------------------------------- program constants

\* The fixed-point image of 1.0, the radius of every ensemble.
Radius == 2

\* inhib: the threshold in seconds.
InhibitAfter == 15

\* nengo.PES() learns at 1e-4, my_bcm at 1e-10: PES steps per BCM step.
PesOverBcm == 1000000

\* ---------------------------------------------------------------- helpers

Max(a, b) == IF a >= b THEN a ELSE b

Abs(a) == IF a >= 0 THEN a ELSE -a

\* n / d rounded to the nearest integer (d > 0), halves away from zero.
RoundDiv(n, d) ==
    IF n >= 0 THEN (2 * n + d) \div (2 * d) ELSE -((2 * (-n) + d) \div (2 * d))

\* n / 2 rounded toward zero.
Half(n) == IF n >= 0 THEN n \div 2 ELSE -((-n) \div 2)

\* The two neurons of an ensemble and their encoders.
Neurons == {"on", "off"}

Enc(n) == IF n = "on" THEN 1 ELSE -1

\* The values the white-noise signal takes.
InputValues == {-Radius, 0, Radius}

\* One fixed-point unit of a pre->post weight is 1 / WeightScale.
WeightScale == 4 * Radius * Radius * PesOverBcm

\* ------------------------------------------------------------ the network

\* inhib with the comparison t >= 15.0.
inhibGe(time) == IF time >= InhibitAfter THEN 2 * Radius ELSE 0

\* def inhib(t): return 2.0 if t > 15.0 else 0.0
inhib(time) == IF time > InhibitAfter THEN 2 * Radius ELSE 0

\* The transforms the connections are constructed with.
InitTransform ==
    [pre_actual_error |-> -1,
     post_actual_error |-> 1,
     pre_error |-> -1,
     post_error |-> 1,
     error_conn |-> 1,
     input_pre |-> 1,
     inhibit_error |-> [k \in Neurons |-> -1]]

\* The learning rule attached to the post -> error connection as well.
LearningRulesAlso(c) ==
    IF c \in {"conn", "post_error"} THEN {"my_pes", "my_bcm"} ELSE {}

\* The learning rules attached to a connection.
LearningRules(c) == IF c = "conn" THEN {"my_pes", "my_bcm"} ELSE {}

\* function=lambda x: np.random.random(1): a draw from [0, 1) of the
\* global numpy generator in state g.
NpRandom(g) == (g * Radius) \div NpStates

\* The weights the solver gives conn for the constant function r:
\* encoder of post neuron j times the decoder r / 2 of each pre neuron.
InitWeights(r) ==
    [j \in Neurons |-> [i \in Neurons |-> Enc(j) * r * 2 * Radius * PesOverBcm]]

\* The activity of neuron n of an ensemble whose input is the value v.
Act(n, v) == Max(0, Enc(n) * v + Radius)

\* The activity of a neuron whose input current is J.
Rate(J) == Max(0, J + Radius)

\* The value decoded from the activities a of an ensemble's two neurons.
Decoded(a) == Half(a["on"] - a["off"])

\* The value the post population represents, given its neurons' currents.
PostValue(J) == Decoded([j \in Neurons |-> Rate(J[j])])

\* The inhibit node connected to the error ensemble instead of its neurons:
\* the inhibitory signal goes through the encoders.
ErrorValueEnsemble(e, inh) ==
    Decoded([k \in Neurons |-> Max(0, Enc(k) * (e + inh[k]) + Radius)])

\* The value the error population puts out: its neurons receive the value e
\* through their encoders and the inhibitory current inh directly.
ErrorValue(e, inh) ==
    Decoded([k \in Neurons |-> Max(0, Enc(k) * e + Radius + inh[k])])

\* A white-noise signal drawn from the global numpy generator.
NodeOutputGlobal(s, g) == IF g = 0 THEN s ELSE -s

\* The output of the input node: the white-noise sample s of the node's
\* own generator, which is seeded from the network seed; g is the state of
\* the global numpy generator.
NodeOutput(s, g) == s

\* nengo.Connection(input, pre, synapse=0.02)
NextPre(tr, in) == tr.input_pre * in

\* The error connection imparting current to post.
NextPostWithError(W, p, e) ==
    [j \in Neurons |->
        RoundDiv(W[j]["on"] * Act("on", p) + W[j]["off"] * Act("off", p),
                 WeightScale) + Enc(j) * e]

\* conn: the currents of post's neurons are the pre activities through the
\* weights; e is the output of the error population.
NextPost(W, p, e) ==
    [j \in Neurons |->
        RoundDiv(W[j]["on"] * Act("on", p) + W[j]["off"] * Act("off", p),
                 WeightScale)]

\* nengo.Connection(pre, error, transform=-1, synapse=0.02)
\* nengo.Connection(post, error, transform=1, synapse=0.02)
NextError(tr, p, J) == tr.pre_error * p + tr.post_error * PostValue(J)

\* nengo.Connection(pre, actual_error, transform=-1)
\* nengo.Connection(post, actual_error, transform=1)
NextActualError(tr, p, J) ==
    tr.pre_actual_error * p + tr.post_actual_error * PostValue(J)

\* nengo.Connection(inhibit, error.neurons, transform=[[-1]] * n_neurons)
NextInhibIn(tr, out) == [k \in Neurons |-> tr.inhibit_error[k] * out]

\* error_conn = nengo.Connection(error, conn.learning_rule['my_pes'])
NextPesError(tr, e, inh) == tr.error_conn * ErrorValue(e, inh)

\* PES: the change of weight (j, i) is minus the learning rate times the
\* error through post neuron j's encoder times pre neuron i's activity.
PesDelta(e, p) ==
    [j \in Neurons |-> [i \in Neurons |->
        -(PesOverBcm * Enc(j) * e * Act(i, p))]]

\* BCM learning at a rate within an order of magnitude of that of PES.
BcmDeltaFast(p, J, th) ==
    [j \in Neurons |-> [i \in Neurons |->
        (PesOverBcm \div 10) * Rate(J[j]) * (Rate(J[j]) - th[j]) * Act(i, p)]]

\* BCM: the change of weight (j, i) is the learning rate times
\* post activity * (post activity - theta) * pre activity.
BcmDelta(p, J, th) ==
    [j \in Neurons |-> [i \in Neurons |->
        Rate(J[j]) * (Rate(J[j]) - th[j]) * Act(i, p)]]

\* BCM's theta: the post activity, low-pass filtered (tau = 1 s).
NextTheta(th, J) == [j \in Neurons |-> RoundDiv(th[j] + 2 * Rate(J[j]), 3)]

\* PES driven by post - pre directly, not by the error population's output.
NextWeightsUngated(W, e, p, J, th) ==
    [j \in Neurons |-> [i \in Neurons |->
        W[j][i] + PesDelta(PostValue(J) - p, p)[j][i] + BcmDelta(p, J, th)[j][i]]]

\* conn.learning_rule_type = {'my_pes': PES(), 'my_bcm': BCM(1e-10)}
NextWeights(W, e, p, J, th) ==
    [j \in Neurons |-> [i \in Neurons |->
        W[j][i]
        + (IF "my_pes" \in LearningRules("conn") THEN PesDelta(e, p)[j][i] ELSE 0)
        + (IF "my_bcm" \in LearningRules("conn") THEN BcmDelta(p, J, th)[j][i] ELSE 0)]]

\* The transforms after a step: a connection without a learning rule keeps
\* its transform; conn's weights are kept in the variable weights.
NextTransform(tr, e) ==
    [c \in DOMAIN tr |->
        IF LearningRules(c) = {} THEN tr[c] ELSE tr[c] - e]

\* A step of a network in which actual_error is connected to error.
StepRunLeak(s, tr, sample, out) ==
    [np_random |-> s.np_random,
     built_actual_error |-> s.built_actual_error,
     input |-> NodeOutput(sample, s.np_random),
     pre |-> NextPre(tr, s.input),
     post |-> NextPost(s.weights, s.pre, s.pes_error),
     error |-> NextError(tr, s.pre, s.post) + s.actual_error,
     inhib_in |-> NextInhibIn(tr, out),
     pes_error |-> NextPesError(tr, s.error, s.inhib_in),
     actual_error |-> NextActualError(tr, s.pre, s.post),
     weights |-> NextWeights(s.weights, s.pes_error, s.pre, s.post, s.theta),
     theta |-> NextTheta(s.theta, s.post)]

\* One step of a run s of the network: sample is the white-noise sample of
\* this step, out the output of the inhibit node.
StepRun(s, tr, sample, out) ==
    [np_random |-> s.np_random,
     built_actual_error |-> s.built_actual_error,
     input |-> NodeOutput(sample, s.np_random),
     pre |-> NextPre(tr, s.input),
     post |-> NextPost(s.weights, s.pre, s.pes_error),
     error |-> NextError(tr, s.pre, s.post),
     inhib_in |-> NextInhibIn(tr, out),
     pes_error |-> NextPesError(tr, s.error, s.inhib_in),
     actual_error |-> NextActualError(tr, s.pre, s.post),
     weights |-> NextWeights(s.weights, s.pes_error, s.pre, s.post, s.theta),
     theta |-> NextTheta(s.theta, s.post)]

\* The first run, as a record.
Run ==
    [np_random |-> np_random, built_actual_error |-> 0,
     input |-> input, pre |-> pre, post |-> post,
     error |-> error, inhib_in |-> inhib_in, pes_error |-> pes_error,
     actual_error |-> actual_error, weights |-> weights, theta |-> theta]

\* A run after construction, the global numpy generator being in state g
\* and the actual_error ensemble in state ae.
Built(g, ae) ==
    [np_random |-> g, built_actual_error |-> ae, input |-> 0, pre |-> 0,
     post |-> [j \in Neurons |-> 0],
     error |-> 0, inhib_in |-> [k \in Neurons |-> 0], pes_error |-> 0,
     actual_error |-> ae,
     weights |-> InitWeights(NpRandom(g)),
     theta |-> [j \in Neurons |-> 0]]

Init ==
    /\ t = 0
    /\ at_onset = {}
    /\ inhibit = inhib(0)
    /\ transform = InitTransform
    /\ \E g \in 0..(NpStates - 1) :
        /\ np_random = g
        /\ input = Built(g, 0).input
        /\ pre = Built(g, 0).pre
        /\ post = Built(g, 0).post
        /\ error = Built(g, 0).error
        /\ inhib_in = Built(g, 0).inhib_in
        /\ pes_error = Built(g, 0).pes_error
        /\ actual_error = Built(g, 0).actual_error
        /\ weights = Built(g, 0).weights
        /\ theta = Built(g, 0).theta
    /\ \E g2 \in 0..(NpStates - 1), ae \in {0, Radius} :
        shadow = Built(g2, ae)

\* One time step of the simulator.
Step ==
    /\ t + DT <= MaxT
    /\ t' = t + DT
    /\ inhibit' = inhib(t')
    /\ transform' = NextTransform(transform, pes_error)
    /\ \E sample \in InputValues :
        LET n == StepRun(Run, transform, sample, inhibit) IN
        /\ np_random' = n.np_random
        /\ input' = n.input
        /\ pre' = n.pre
        /\ post' = n.post
        /\ error' = n.error
        /\ inhib_in' = n.inhib_in
        /\ pes_error' = n.pes_error
        /\ actual_error' = n.actual_error
        /\ weights' = n.weights
        /\ theta' = n.theta
        /\ shadow' = StepRun(shadow, transform, sample, inhibit)
        /\ at_onset' = IF t <= InhibitAfter /\ t' > InhibitAfter
                        THEN {n.actual_error}
                        ELSE at_onset

Next == Step

Spec == Init /\ [][Next]_vars

\* ------------------------------------------------------------------ claims

\* The value post gives for the value v of pre under the weights W.
Response(W, v) == PostValue(NextPost(W, v, 0))

\* A value within one unit of the fixed-point resolution of zero.
AlmostZero(e) == Abs(e) <= 1

\* The inhibitory current at the error neurons is the negative of the
\* inhibit node's full output 2.0.
FullyInhibited == \A k \in Neurons : inhib_in[k] = -(2 * Radius)

ZeroDelta == [j \in Neurons |-> [i \in Neurons |-> 0]]

C4_ErrorIsPreMinusPost ==
    /\ NextError(transform, pre, post) = pre - PostValue(post)
    /\ NextActualError(transform, pre, post) = pre - PostValue(post)

\* C5: two runs that start equal except for the state of actual_error agree
\* at every step on pre, post, error and the weights of conn.
C5_ActualErrorIsolated ==
    shadow.np_random = np_random =>
        /\ shadow.input = input
        /\ shadow.pre = pre
        /\ shadow.post = post
        /\ shadow.error = error
        /\ shadow.pes_error = pes_error
        /\ shadow.weights = weights

\* C5's case: the second run started with another actual_error state, and
\* both have learned since.
C5_Witness ==
    /\ shadow.np_random = np_random
    /\ shadow.built_actual_error # 0
    /\ t >= 3 * DT
    /\ error # 0
    /\ weights # InitWeights(NpRandom(np_random))

C8_ErrorImpartsNoCurrent ==
    [][\A j \in Neurons :
        post'[j] = RoundDiv(weights[j]["on"] * Act("on", pre)
                            + weights[j]["off"] * Act("off", pre),
                            WeightScale)]_vars

\* C8's case: the learning rule receives a nonzero error and the weights
\* have changed.
C8_Witness ==
    /\ pes_error # 0
    /\ error # 0
    /\ weights # InitWeights(NpRandom(np_random))

\* C9: at every step the transforms of input->pre, pre->error, post->error,
\* pre->actual_error, post->actual_error, error->learning rule and
\* inhibit->error.neurons are the ones they were constructed with.
C9_OnlyConnLearns ==
    /\ transform.input_pre = 1
    /\ transform.pre_error = -1
    /\ transform.post_error = 1
    /\ transform.pre_actual_error = -1
    /\ transform.post_actual_error = 1
    /\ transform.error_conn = 1
    /\ transform.inhibit_error = [k \in Neurons |-> -1]

\* C9's case: the learning rule has received an error and changed the
\* weights of conn.
C9_Witness ==
    /\ pes_error # 0
    /\ t >= 3 * DT
    /\ weights # InitWeights(NpRandom(np_random))

====
